---------------------------- MODULE Spec2Model ----------------------------
(***************************************************************************)
(* gitlab-todotxt-sync: the todo.txt record codec (src/src/todo.rs), the   *)
(* conversion of a GitLab feed item into a record (src/src/gitlab.rs) and  *)
(* the reconciliation and rewrite of the todo file (src/src/main.rs).      *)
(*                                                                         *)
(* A string is a sequence of one-character strings; an Option is a         *)
(* sequence of length 0 (None) or 1 (Some).                                *)
(***************************************************************************)
EXTENDS Integers, Sequences, FiniteSets, TLC

VARIABLES
    mode,       \* which entry point of the program this behaviour exercises
    pc,         \* position inside that entry point
    \* ---- todo.rs, escaping and tag extraction -------------------------
    desc,       \* a description string handed to escape_description
    escaped,    \* its result
    \* ---- todo.rs, Display / FromStr -----------------------------------
    rec,        \* a record built by Todo::new
    line,       \* its Display rendering
    parsed,     \* the result of parsing that line
    \* ---- main.rs, update_todos ----------------------------------------
    existing0,  \* the local list handed to update_todos
    todos0,     \* the incoming mapping handed to update_todos
    add_done,   \* its third argument
    existing,   \* the list after the call
    origin,     \* history: for each record of existing, 0 when it is a local
                \* record update_todos retained untouched, else the key of
                \* the incoming record stored at that place
    counts,     \* the triple update_todos returns
    \* ---- main.rs, main ------------------------------------------------
    config,     \* the AppConfig read from config.json
    feed,       \* the todo items the GitLab instance holds
    file,       \* the bytes of the todo file
    fileExists, \* whether the todo file exists
    file0,      \* history: the bytes of the todo file when the run started
    gltodos,    \* what get_gitlab_todos returned
    todos,      \* the mapping collected from into_todo
    loaded,     \* what read_existing returned
    written,    \* the list handed to write_file
    buf,        \* the bytes write_file produced
    failedAt,   \* history: the step whose error ended the run
    runs        \* history: the number of runs of main started

-----------------------------------------------------------------------------
(* Characters *)

Whitespace == {" ", "\t", "\n", "\r"}

DigitSeq == <<"0", "1", "2", "3", "4", "5", "6", "7", "8", "9">>

Digits == {DigitSeq[i] : i \in 1..10}

UpperLetters == {"A", "B", "T", "Z"}

LowerLetters == {"a", "b", "d", "g", "i", "k", "p", "r", "v", "x"}

WordChars == Digits \cup UpperLetters \cup LowerLetters \cup {"_"}

IsWs(c) == c \in Whitespace

IsWord(c) == c \in WordChars

Min(S) == CHOOSE x \in S : \A y \in S : x <= y

Max(S) == CHOOSE x \in S : \A y \in S : x >= y

None == <<>>

Some(v) == <<v>>

\* The index of the first element of s satisfying the membership test, or 0.
FirstIn(s, set) ==
    LET hits == {j \in 1..Len(s) : s[j] \in set}
    IN  IF hits = {} THEN 0 ELSE Min(hits)

\* str::trim_start
TrimStart(s) ==
    LET keep == {j \in 1..Len(s) : ~IsWs(s[j])}
    IN  IF keep = {} THEN <<>> ELSE SubSeq(s, Min(keep), Len(s))

StartsWith(s, p) == Len(s) >= Len(p) /\ SubSeq(s, 1, Len(p)) = p

RECURSIVE Concat(_)
Concat(ss) == IF ss = <<>> THEN <<>> ELSE Head(ss) \o Concat(Tail(ss))

-----------------------------------------------------------------------------
(* todo.rs: the tag pattern                                                *)
(*   (^|\s)(?<tag>(?<head>@|\+|(?<key>\w+):)(?<body>\S)+)\b                *)

WordAt(s, i) == i >= 1 /\ i <= Len(s) /\ IsWord(s[i])

\* \b after the character at index e
WordBoundary(s, e) == WordAt(s, e) # WordAt(s, e + 1)

\* The last index of the run of word characters starting at i (i-1: none).
WordRunEnd(s, i) ==
    LET stops == {j \in i..Len(s) : ~IsWord(s[j])}
    IN  IF stops = {} THEN Len(s) ELSE Min(stops) - 1

\* The last index of the run of non-whitespace characters starting at i.
NonWsRunEnd(s, i) ==
    LET stops == {j \in i..Len(s) : IsWs(s[j])}
    IN  IF stops = {} THEN Len(s) ELSE Min(stops) - 1

NoTag == [ok |-> FALSE, headEnd |-> 0, end |-> 0]

\* The index of the last character of <head> for a tag starting at t, or 0.
HeadEnd(s, t) ==
    IF t > Len(s) THEN 0
    ELSE IF s[t] \in {"@", "+"} THEN t
    ELSE IF ~IsWord(s[t]) THEN 0
    ELSE LET we == WordRunEnd(s, t)
         IN  IF we + 1 <= Len(s) /\ s[we + 1] = ":" THEN we + 1 ELSE 0

\* <body> after a head ending at he: the longest run of \S that ends at a
\* word boundary.
BodyAfter(s, he) ==
    IF he = 0 THEN NoTag
    ELSE LET cands == {e \in (he + 1)..NonWsRunEnd(s, he + 1) : WordBoundary(s, e)}
         IN  IF cands = {} THEN NoTag
             ELSE [ok |-> TRUE, headEnd |-> he, end |-> Max(cands)]

\* <tag> matched from index t
TagAt(s, t) == BodyAfter(s, HeadEnd(s, t))

NoMatch == [ok |-> FALSE, start |-> 0, tagStart |-> 0, headEnd |-> 0, end |-> 0]

MatchOf(p, t, tag) ==
    IF tag.ok
    THEN [ok |-> TRUE, start |-> p, tagStart |-> t,
          headEnd |-> tag.headEnd, end |-> tag.end]
    ELSE NoMatch

\* The match whose first character is at index p: ^ is tried before \s.
MatchAt(s, p) ==
    IF p = 1 /\ HeadEnd(s, 1) # 0 /\ TagAt(s, 1).ok THEN MatchOf(1, 1, TagAt(s, 1))
    ELSE IF p <= Len(s) /\ IsWs(s[p]) THEN MatchOf(p, p + 1, TagAt(s, p + 1))
    ELSE NoMatch

\* captures_iter: the leftmost match at or after `from`, then on from its end.
RECURSIVE Matches(_, _)
MatchesFrom(s, starts) ==
    IF starts = {} THEN <<>>
    ELSE <<MatchAt(s, Min(starts))>> \o Matches(s, MatchAt(s, Min(starts)).end + 1)

Matches(s, from) == MatchesFrom(s, {p \in from..Len(s) : MatchAt(s, p).ok})

part_reg(s) == Matches(s, 1)

-----------------------------------------------------------------------------
(* todo.rs: DescriptionPart, find_meta and the lookups built on it *)

Context(name) == [kind |-> "Context", key |-> <<>>, value |-> name]

Project(name) == [kind |-> "Project", key |-> <<>>, value |-> name]

Data(k, v) == [kind |-> "Data", key |-> k, value |-> v]

\* DescriptionPart::parse; every tag the pattern matches starts with @ or +
\* or holds a colon, so the Err arm is never taken by find_meta.
DescriptionPart_parse(tag) ==
    IF tag[1] = "@" THEN Context(Tail(tag))
    ELSE IF tag[1] = "+" THEN Project(Tail(tag))
    ELSE LET c == FirstIn(tag, {":"})
         IN  Data(SubSeq(tag, 1, c - 1), SubSeq(tag, c + 1, Len(tag)))

\* Display for DescriptionPart
DescriptionPart_fmt(part) ==
    IF part.kind = "Context" THEN <<"@">> \o part.value
    ELSE IF part.kind = "Project" THEN <<"+">> \o part.value
    ELSE part.key \o <<":">> \o part.value

TagsOf(d, ms) ==
    [i \in 1..Len(ms) |-> DescriptionPart_parse(SubSeq(d, ms[i].tagStart, ms[i].end))]

find_meta(d) == TagsOf(d, part_reg(d))

Holds(tags, tag) == \E i \in 1..Len(tags) : tags[i] = tag

has_tag(d, tag) == Holds(find_meta(d), tag)

has_context(d, ctx) == has_tag(d, Context(ctx))

\* The value of the first Data tag with that key, as an Option.
FirstData(tags, hits) == IF hits = {} THEN None ELSE Some(tags[Min(hits)].value)

DataOf(tags, k) ==
    FirstData(tags, {i \in 1..Len(tags) : tags[i].kind = "Data" /\ tags[i].key = k})

get_data(d, k) == DataOf(find_meta(d), k)

\* AddAssign<DescriptionPart> for Todo, on the description
add_assign(d, part) ==
    IF d = <<>> THEN DescriptionPart_fmt(part)
    ELSE IF IsWs(d[Len(d)]) THEN d \o DescriptionPart_fmt(part)
    ELSE d \o <<" ">> \o DescriptionPart_fmt(part)

-----------------------------------------------------------------------------
(* todo.rs: escape_description *)

\* Faulty variant: the backslash put after the head's last character
ReplacementAfterHead(d, m) ==
    SubSeq(d, m.start, m.headEnd) \o <<"\\">> \o SubSeq(d, m.headEnd + 1, m.end)

\* The replacement of one match: desc[m.start()..pos] \ desc[pos..m.end()]
\* with pos = head.end() - 1, the place of the head's last character.
Replacement(d, m) ==
    SubSeq(d, m.start, m.headEnd - 1) \o <<"\\">> \o SubSeq(d, m.headEnd, m.end)

\* Faulty variant: Regex::replace in place of replace_all: the first match only
ReplaceFirst(d, ms, from) ==
    IF ms = <<>> THEN SubSeq(d, from, Len(d))
    ELSE SubSeq(d, from, Head(ms).start - 1) \o Replacement(d, Head(ms))
         \o SubSeq(d, Head(ms).end + 1, Len(d))

\* replace_all: the text between the matches is copied, each match replaced.
RECURSIVE ReplaceAll(_, _, _)
ReplaceAll(d, ms, from) ==
    IF ms = <<>> THEN SubSeq(d, from, Len(d))
    ELSE SubSeq(d, from, Head(ms).start - 1) \o Replacement(d, Head(ms))
         \o ReplaceAll(d, Tail(ms), Head(ms).end + 1)

escape_description(d) == ReplaceAll(d, part_reg(d), 1)

-----------------------------------------------------------------------------
(* todo.rs: Date *)

Date(y, m, d) == [year |-> y, month |-> m, day |-> d]

RECURSIVE NatToStr(_)
NatToStr(n) ==
    IF n < 10 THEN <<DigitSeq[n + 1]>>
    ELSE NatToStr(n \div 10) \o <<DigitSeq[(n % 10) + 1]>>

\* {:0w}: at least w digits, zero-padded on the left
Pad(n, w) ==
    LET ds == NatToStr(n)
    IN  [i \in 1..(IF Len(ds) >= w THEN 0 ELSE w - Len(ds)) |-> "0"] \o ds

\* Display for Date
Date_fmt(d) ==
    Pad(d.year, 4) \o <<"-">> \o Pad(d.month, 2) \o <<"-">> \o Pad(d.day, 2)

DigitVal(c) == (CHOOSE i \in 1..10 : DigitSeq[i] = c) - 1

\* The digits' value, saturating just above max.
RECURSIVE DigitsValue(_, _, _)
DigitsValue(ds, acc, max) ==
    IF ds = <<>> THEN acc
    ELSE DigitsValue(Tail(ds),
                     IF acc * 10 + DigitVal(Head(ds)) > max THEN max + 1
                     ELSE acc * 10 + DigitVal(Head(ds)),
                     max)

\* str::parse for an unsigned integer type with the given MAX: an optional
\* '+', then at least one digit, no overflow.  An Option.
ParseUInt(s, max) ==
    LET ds == IF s # <<>> /\ s[1] = "+" THEN Tail(s) ELSE s
    IN  IF ds = <<>> \/ \E i \in 1..Len(ds) : ds[i] \notin Digits THEN None
        ELSE IF DigitsValue(ds, 0, max) > max THEN None
        ELSE Some(DigitsValue(ds, 0, max))

U8_MAX == 255

U16_MAX == 65535

\* usize is wider than the integers of TLC; ids stay far below both.
USIZE_MAX == 2147483647 - 1

\* FromStr for Date, as an Option (None: Err)
Date_from_str(s) ==
    LET c1 == FirstIn(s, {"-"})
    IN  IF c1 = 0 THEN None
        ELSE LET rest == SubSeq(s, c1 + 1, Len(s))
                 c2   == FirstIn(rest, {"-"})
             IN  IF c2 = 0 THEN None
                 ELSE LET y == ParseUInt(SubSeq(s, 1, c1 - 1), U16_MAX)
                          m == ParseUInt(SubSeq(rest, 1, c2 - 1), U8_MAX)
                          d == ParseUInt(SubSeq(rest, c2 + 1, Len(rest)), U8_MAX)
                      IN  IF y = None \/ m = None \/ d = None THEN None
                          ELSE Some(Date(y[1], m[1], d[1]))

-----------------------------------------------------------------------------
(* todo.rs: Todo, Display and FromStr *)

Todo(done, priority, created, completed, description) ==
    [done |-> done, priority |-> priority, created |-> created,
     completed |-> completed, description |-> description]

NullTodo == Todo(FALSE, None, None, None, <<>>)

Ok(t) == [res |-> "Ok", todo |-> t]

Err == [res |-> "Err", todo |-> NullTodo]

Panic == [res |-> "Panic", todo |-> NullTodo]

Todo_new(done, priority, created, completed, description) ==
    IF completed # None /\ created = None THEN Err
    ELSE Ok(Todo(done, priority, created, completed, description))

\* Display for Todo
Todo_fmt(t) ==
    (IF t.done THEN <<"x", " ">> ELSE <<>>)
    \o (IF t.priority # None THEN <<"(", t.priority[1], ")", " ">> ELSE <<>>)
    \o (IF t.completed # None THEN Date_fmt(t.completed[1]) \o <<" ">> ELSE <<>>)
    \o (IF t.created # None THEN Date_fmt(t.created[1]) \o <<" ">> ELSE <<>>)
    \o t.description

\* The length of the match of PRI_REG, ^\(?<pri>([A-Z])\)\s+ , at the start
\* of s, or 0.  As written the pattern is: an optional "(", the literal text
\* "<pri>", one capital in an unnamed group, ")", whitespace.
PRI_REG(s) ==
    LET o   == IF s # <<>> /\ s[1] = "(" THEN 1 ELSE 0
        wsN == IF Len(s) < o + 8 THEN 0
               ELSE LET stops == {j \in (o + 8)..Len(s) : ~IsWs(s[j])}
                    IN  (IF stops = {} THEN Len(s) + 1 ELSE Min(stops)) - (o + 8)
    IN  IF /\ Len(s) >= o + 8
           /\ SubSeq(s, o + 1, o + 5) = <<"<", "p", "r", "i", ">">>
           /\ s[o + 6] \in UpperLetters
           /\ s[o + 7] = ")"
           /\ wsN >= 1
        THEN o + 7 + wsN
        ELSE 0

\* The dates step of from_str: [res, created, completed, rest]
ParseDates(s, done) ==
    LET sp == FirstIn(s, Whitespace)
        no == [res |-> "Ok", created |-> None, completed |-> None, rest |-> s]
    IN  IF sp = 0 THEN no
        ELSE LET rest == SubSeq(s, sp + 1, Len(s))
                 d1   == Date_from_str(SubSeq(s, 1, sp - 1))
                 sp2  == FirstIn(rest, Whitespace)
                 d2   == IF sp2 = 0 THEN None
                         ELSE Date_from_str(SubSeq(rest, 1, sp2 - 1))
             IN  IF d1 = None THEN no
                 ELSE IF d2 # None
                 THEN [res |-> IF done THEN "Ok" ELSE "Err",
                       created |-> d2, completed |-> d1,
                       rest |-> SubSeq(rest, sp2 + 1, Len(rest))]
                 ELSE [res |-> "Ok", created |-> d1, completed |-> None,
                       rest |-> rest]

\* FromStr for Todo.  A match of PRI_REG has no group named "pri", so
\* pri.name("pri").unwrap() panics; without a match priority stays None.
from_str(s0) ==
    LET done == StartsWith(s0, <<"x", " ">>)
        s1   == IF done THEN SubSeq(s0, 3, Len(s0)) ELSE s0
    IN  IF PRI_REG(s1) > 0 THEN Panic
        ELSE LET ds == ParseDates(s1, done)
             IN  IF ds.res = "Err" THEN Err
                 ELSE Todo_new(done, None, ds.created, ds.completed,
                               TrimStart(ds.rest))

-----------------------------------------------------------------------------
(* main.rs: update_todos *)

Str_a == <<"a">>

Str_id_x == <<"i", "d", ":", "x">>

Str_id_1 == <<"i", "d", ":", "1">>

Str_id_2 == <<"i", "d", ":", "2">>

\* Records the mapping is drawn from: one whose id tag does not parse, and
\* pending and done records with ids 1 and 2.  The list may also hold a
\* hand-written record with every field set and no tag.
HandWritten ==
    Todo(TRUE, Some("A"), Some(Date(2024, 1, 5)), Some(Date(2024, 2, 6)), Str_a)

TaggedRecords ==
    { Todo(TRUE, None, None, None, Str_id_x),
      Todo(FALSE, None, None, None, Str_id_1),
      Todo(TRUE, None, None, None, Str_id_1),
      Todo(FALSE, None, None, None, Str_id_2),
      Todo(TRUE, None, None, None, Str_id_2) }

UpdRecords == TaggedRecords \cup {HandWritten}

\* id.parse::<usize>() on the Option get_data returns
ParsedId(d) == IF d = None THEN None ELSE ParseUInt(d[1], USIZE_MAX)

\* get_id on the records of UpdRecords, computed once
IdOfUpdRecord == [t \in UpdRecords |-> ParsedId(get_data(t.description, <<"i", "d">>))]

\* update_todos::get_id, as an Option: the first id tag, parsed as usize
get_id(t) ==
    IF t \in UpdRecords THEN IdOfUpdRecord[t]
    ELSE ParsedId(get_data(t.description, <<"i", "d">>))

\* f without the key k (HashMap::remove)
MapRemove(f, k) == [x \in DOMAIN f \ {k} |-> f[x]]

\* Faulty variant: the closure with `return false` for a record without an id
VisitDropUntagged(extd, j, td, id) ==
    IF id = None
    THEN [keep |-> FALSE, rec |-> extd, todos |-> td, upd |-> 0, del |-> 1,
          src |-> [local |-> j, key |-> 0]]
    ELSE IF id[1] \in DOMAIN td
    THEN [keep |-> TRUE,
          rec |-> IF extd # td[id[1]] THEN td[id[1]] ELSE extd,
          todos |-> MapRemove(td, id[1]),
          upd |-> IF extd # td[id[1]] THEN 1 ELSE 0, del |-> 0,
          src |-> [local |-> j, key |-> id[1]]]
    ELSE [keep |-> FALSE, rec |-> extd, todos |-> td, upd |-> 0, del |-> 1,
          src |-> [local |-> j, key |-> 0]]

\* Faulty variant: the closure keeping a record whose id is not in the mapping
VisitKeepOrphan(extd, j, td, id) ==
    IF id = None \/ id[1] \notin DOMAIN td
    THEN [keep |-> TRUE, rec |-> extd, todos |-> td, upd |-> 0, del |-> 0,
          src |-> [local |-> j, key |-> 0]]
    ELSE [keep |-> TRUE,
          rec |-> IF extd # td[id[1]] THEN td[id[1]] ELSE extd,
          todos |-> MapRemove(td, id[1]),
          upd |-> IF extd # td[id[1]] THEN 1 ELSE 0, del |-> 0,
          src |-> [local |-> j, key |-> id[1]]]

\* Faulty variant: the closure looking the id up with get, not remove
VisitLookup(extd, j, td, id) ==
    IF id = None
    THEN [keep |-> TRUE, rec |-> extd, todos |-> td, upd |-> 0, del |-> 0,
          src |-> [local |-> j, key |-> 0]]
    ELSE IF id[1] \in DOMAIN td
    THEN [keep |-> TRUE,
          rec |-> IF extd # td[id[1]] THEN td[id[1]] ELSE extd,
          todos |-> td,
          upd |-> IF extd # td[id[1]] THEN 1 ELSE 0, del |-> 0,
          src |-> [local |-> j, key |-> id[1]]]
    ELSE [keep |-> FALSE, rec |-> extd, todos |-> td, upd |-> 0, del |-> 1,
          src |-> [local |-> j, key |-> 0]]

\* The closure handed to retain_mut, on one local record extd (the j-th of
\* the list) whose parsed id is id, with the incoming mapping td as it then
\* stands.  src is the history of the kept record: the local record it
\* stands for and the key of the incoming record matched with it (0: none).
Visit(extd, j, td, id) ==
    IF id = None
    THEN [keep |-> TRUE, rec |-> extd, todos |-> td, upd |-> 0, del |-> 0,
          src |-> [local |-> j, key |-> 0]]
    ELSE IF id[1] \in DOMAIN td
    THEN [keep |-> TRUE,
          rec |-> IF extd # td[id[1]] THEN td[id[1]] ELSE extd,
          todos |-> MapRemove(td, id[1]),
          upd |-> IF extd # td[id[1]] THEN 1 ELSE 0, del |-> 0,
          src |-> [local |-> j, key |-> id[1]]]
    ELSE [keep |-> FALSE, rec |-> extd, todos |-> td, upd |-> 0, del |-> 1,
          src |-> [local |-> j, key |-> 0]]

\* The state of the retain_mut pass after one more visit v
Visited(acc, v) ==
    [list   |-> IF v.keep THEN Append(acc.list, v.rec) ELSE acc.list,
     origin |-> IF v.keep THEN Append(acc.origin, v.src) ELSE acc.origin,
     todos  |-> v.todos,
     upd    |-> acc.upd + v.upd,
     del    |-> acc.del + v.del]

\* existing.retain_mut(..) from the j-th record on
RECURSIVE RetainMut(_, _, _)
RetainMut(ex, j, acc) ==
    IF j > Len(ex) THEN acc
    ELSE RetainMut(ex, j + 1,
                   Visited(acc, Visit(ex[j], j, acc.todos, get_id(ex[j]))))

RetainStart(td) ==
    [list |-> <<>>, origin |-> <<>>, todos |-> td, upd |-> 0, del |-> 0]

\* Faulty variant: the filter applied whatever add_done is
AppendableNotDone(t, add) == ~t.done

\* Faulty variant: no filter at all
AppendableAlways(t, add) == TRUE

\* The filter on the records left in the mapping before they are appended.
Appendable(t, add) == add \/ ~t.done

\* todos.into_values(), filtered, in the order `order` (a sequence of the
\* keys left: a HashMap iterates in an arbitrary order)
Extension(td, order, add) ==
    SelectSeq([i \in 1..Len(order) |-> [rec |-> td[order[i]], key |-> order[i]]],
              LAMBDA e : Appendable(e.rec, add))

\* update_todos: the list, its history and the counts (new, upd, del)
Extended(r, ext) ==
    [list   |-> r.list \o [i \in 1..Len(ext) |-> ext[i].rec],
     origin |-> r.origin \o [i \in 1..Len(ext) |-> [local |-> 0, key |-> ext[i].key]],
     counts |-> <<Cardinality(DOMAIN r.todos), r.upd, r.del>>]

Retained(r, order, add) == Extended(r, Extension(r.todos, order, add))

update_todos(ex, td, add, order) ==
    Retained(RetainMut(ex, 1, RetainStart(td)), order, add)

\* The orders in which a HashMap may yield the keys of td
Orders(td) ==
    {o \in [1..Cardinality(DOMAIN td) -> DOMAIN td] :
        \A a, b \in 1..Cardinality(DOMAIN td) : a # b => o[a] # o[b]}

\* The keys left in the mapping once retain_mut has run
Leftover(ex, td) == RetainMut(ex, 1, RetainStart(td)).todos

-----------------------------------------------------------------------------
(* todo.rs: read_file and write_file *)

\* Lines::next_line until the end of the input: the text up to each "\n",
\* without it and without one "\r" before it; a last line with no "\n" is
\* returned as it is.
RECURSIVE Lines(_)
LineBefore(s, c) ==
    IF c >= 2 /\ s[c - 1] = "\r" THEN SubSeq(s, 1, c - 2) ELSE SubSeq(s, 1, c - 1)

LinesAt(s, c) ==
    IF s = <<>> THEN <<>>
    ELSE IF c = 0 THEN <<s>>
    ELSE <<LineBefore(s, c)>> \o Lines(SubSeq(s, c + 1, Len(s)))

Lines(s) == LinesAt(s, FirstIn(s, {"\n"}))

\* line.trim().is_empty()
IsBlank(l) == \A i \in 1..Len(l) : IsWs(l[i])

\* The loop of read_file over the lines left: [res, list]
RECURSIVE ParseLines(_, _)
ParsedLine(ls, acc, r) ==
    IF r.res = "Ok" THEN ParseLines(Tail(ls), Append(acc, r.todo))
    ELSE [res |-> r.res, list |-> <<>>]

ParseLines(ls, acc) ==
    IF ls = <<>> THEN [res |-> "Ok", list |-> acc]
    ELSE IF IsBlank(Head(ls)) THEN ParseLines(Tail(ls), acc)
    ELSE ParsedLine(ls, acc, from_str(Head(ls)))

read_file(f) == ParseLines(Lines(f), <<>>)

\* Faulty variant: write! in place of writeln!: no line terminator
write_file_unterminated(list) == Concat([i \in 1..Len(list) |-> Todo_fmt(list[i])])

\* write_file: writeln!(buf, "{}", todo) for each record
write_file(list) ==
    Concat([i \in 1..Len(list) |-> Todo_fmt(list[i]) \o <<"\n">>])

-----------------------------------------------------------------------------
(* gitlab.rs: GitlabTodo *)

STATE_PENDING == "pending"

STATE_DONE == "done"

GitlabTodo(id, body, state, created_at, updated_at, target_type, action_name, project) ==
    [id |-> id, body |-> body, state |-> state, created_at |-> created_at,
     updated_at |-> updated_at, target_type |-> target_type,
     action_name |-> action_name, project |-> project]

is_done(gl) == gl.state = STATE_DONE

\* into_todo::parse_date, as an Option: the text before the first 'T'
parse_date(raw) ==
    IF FirstIn(raw, {"T"}) = 0 THEN None
    ELSE Date_from_str(SubSeq(raw, 1, FirstIn(raw, {"T"}) - 1))

\* The description into_todo builds before the tags are appended
Described(gl, cfg) ==
    <<"[">> \o gl.target_type \o <<":">> \o gl.action_name \o <<"]", " ">>
    \o (IF cfg.no_escape_meta THEN gl.body ELSE escape_description(gl.body))

\* The tags into_todo appends: the project, the id, the context
Tagged(d, gl, cfg) ==
    LET withProject == IF gl.project # None
                       THEN add_assign(d, Project(gl.project[1])) ELSE d
        withId      == add_assign(withProject, Data(<<"i", "d">>, NatToStr(gl.id)))
    IN  IF cfg.context_tag # None
        THEN add_assign(withId, Context(cfg.context_tag[1])) ELSE withId

\* into_todo: Ok(record) or Err
into_todo(gl, cfg) ==
    LET created == parse_date(gl.created_at)
        updated == parse_date(gl.updated_at)
    IN  IF created = None THEN Err
        ELSE IF is_done(gl) /\ updated = None THEN Err
        ELSE Ok(Todo(is_done(gl), None, created,
                     IF is_done(gl) THEN updated ELSE None,
                     Tagged(Described(gl, cfg), gl, cfg)))

-----------------------------------------------------------------------------
(* main.rs: the steps of main *)

\* get_gitlab_todos: the pending items, and the done ones unless the policy
\* is Ignore, in the order of get_all_todos; ids are unique in a feed, so the
\* order of the items read from a file instead makes no difference below.
get_gitlab_todos(items, cfg) ==
    SelectSeq(items, LAMBDA gl : ~is_done(gl))
    \o (IF cfg.done_todo_policy = "Ignore" THEN <<>>
        ELSE SelectSeq(items, is_done))

\* The collect into a HashMap: a later item replaces an earlier one with the
\* same id.
Collected(gls, cfg) ==
    [id \in {gls[i].id : i \in 1..Len(gls)} |->
        into_todo(gls[Max({i \in 1..Len(gls) : gls[i].id = id})], cfg).todo]

ConversionFails(gls, cfg) ==
    \E i \in 1..Len(gls) : into_todo(gls[i], cfg).res # "Ok"

\* splitf: the records subject to reconciliation
splitf(t, cfg) ==
    IF cfg.context_tag = None THEN TRUE
    ELSE has_context(t.description, cfg.context_tag[1])

-----------------------------------------------------------------------------
(* Specifications.  Each exercises one entry point; the variables of the   *)
(* others stay at their idle values.                                       *)

vars == <<mode, pc, desc, escaped, rec, line, parsed,
          existing0, todos0, add_done, existing, origin, counts,
          config, feed, file, fileExists, file0, gltodos, todos, loaded,
          written, buf, failedAt, runs>>

Strings(alphabet, n) == UNION {[1..k -> alphabet] : k \in 0..n}

IdleEscape == desc = <<>> /\ escaped = <<>>

IdleCodec == rec = NullTodo /\ line = <<>> /\ parsed = Err

IdleUpdate ==
    /\ existing0 = <<>> /\ todos0 = <<>> /\ add_done = FALSE
    /\ existing = <<>> /\ origin = <<>> /\ counts = <<0, 0, 0>>

AppConfig(policy, context_tag, no_escape_meta) ==
    [done_todo_policy |-> policy, context_tag |-> context_tag,
     no_escape_meta |-> no_escape_meta]

\* Default for AppConfig, as far as main reads it
DefaultConfig == AppConfig("Mark", None, FALSE)

IdleMain ==
    /\ config = DefaultConfig /\ feed = <<>> /\ file = <<>> /\ fileExists = FALSE
    /\ file0 = <<>> /\ gltodos = <<>> /\ todos = <<>> /\ loaded = <<>>
    /\ written = <<>> /\ buf = <<>> /\ failedAt = "none" /\ runs = 0

mainVars == <<config, feed, file, fileExists, file0, gltodos, todos, loaded,
              written, buf, failedAt, runs>>

escapeVars == <<desc, escaped>>

codecVars == <<rec, line, parsed>>

updateVars == <<existing0, todos0, add_done, existing, origin, counts>>

(* ---- escape_description on every short description ------------------- *)

MaxDescLen == 6

EscAlphabet == {"@", "+", ":", "a", " ", "\\"}

InitEscape ==
    /\ mode = "escape" /\ pc = "input"
    /\ desc \in Strings(EscAlphabet, MaxDescLen)
    /\ escaped = <<>>
    /\ IdleCodec /\ IdleUpdate /\ IdleMain

Escape ==
    /\ mode = "escape" /\ pc = "input"
    /\ escaped' = escape_description(desc)
    /\ pc' = "escaped"
    /\ UNCHANGED <<mode, desc, codecVars, updateVars, mainVars>>

NextEscape == Escape

SpecEscape == InitEscape /\ [][NextEscape]_vars

(* ---- Display then FromStr on every record Todo::new accepts ---------- *)

MaxTextLen == 3

CodecAlphabet == {"x", " ", "a"}

CodecDates == {None, Some(Date(2024, 1, 5))}

InitCodec ==
    /\ mode = "codec" /\ pc = "built"
    /\ \E done \in BOOLEAN, priority \in {None, Some("A")},
          created \in CodecDates, completed \in CodecDates,
          description \in Strings(CodecAlphabet, MaxTextLen) :
            /\ Todo_new(done, priority, created, completed, description).res = "Ok"
            /\ rec = Todo_new(done, priority, created, completed, description).todo
    /\ line = <<>> /\ parsed = Err
    /\ IdleEscape /\ IdleUpdate /\ IdleMain

Serialize ==
    /\ mode = "codec" /\ pc = "built"
    /\ line' = Todo_fmt(rec)
    /\ pc' = "written"
    /\ UNCHANGED <<mode, rec, parsed, escapeVars, updateVars, mainVars>>

Parse ==
    /\ mode = "codec" /\ pc = "written"
    /\ parsed' = from_str(line)
    /\ pc' = "parsed"
    /\ UNCHANGED <<mode, rec, line, escapeVars, updateVars, mainVars>>

NextCodec == Serialize \/ Parse

SpecCodec == InitCodec /\ [][NextCodec]_vars

(* ---- update_todos on every short list and small mapping -------------- *)

MaxLocal == 2

MaxKey == 2

Mappings(keys, values) == UNION {[K -> values] : K \in SUBSET keys}

InitUpdate ==
    /\ mode = "update" /\ pc = "call"
    /\ existing0 \in UNION {[1..n -> UpdRecords] : n \in 0..MaxLocal}
    /\ todos0 \in Mappings(1..MaxKey, TaggedRecords)
    /\ add_done \in BOOLEAN
    /\ existing = existing0 /\ origin = <<>> /\ counts = <<0, 0, 0>>
    /\ IdleEscape /\ IdleCodec /\ IdleMain

UpdateTodos ==
    /\ mode = "update" /\ pc = "call"
    /\ \E left \in {Leftover(existing0, todos0)} :
        \E order \in Orders(left) :
        \E r \in {update_todos(existing0, todos0, add_done, order)} :
            /\ existing' = r.list
            /\ origin' = r.origin
            /\ counts' = r.counts
    /\ pc' = "returned"
    /\ UNCHANGED <<mode, existing0, todos0, add_done, escapeVars, codecVars, mainVars>>

NextUpdate == UpdateTodos

SpecUpdate == InitUpdate /\ [][NextUpdate]_vars

(* ---- runs of main, one after the other -------------------------------- *)

MaxId == 2

MaxRuns == 2

Str_g == <<"g">>

Str_T == <<"T">>

Str_1_2_3T == <<"1", "-", "2", "-", "3", "T">>

Str_4_5_6T == <<"4", "-", "5", "-", "6", "T">>

\* a creation timestamp parse_date rejects
Str_1_2T == <<"1", "-", "2", "T">>

Str_a_nl_x == <<"a", "\n", "x">>

Str_p == <<"p">>

\* What an item of the feed may be: body, state, created_at, project
ItemKinds ==
    { <<Str_a, STATE_PENDING, Str_1_2_3T, None>>,
      <<Str_a, STATE_DONE, Str_1_2_3T, None>>,
      <<Str_a_nl_x, STATE_PENDING, Str_1_2_3T, None>>,
      <<Str_id_x, STATE_PENDING, Str_1_2_3T, None>>,
      <<Str_a, STATE_PENDING, Str_1_2T, None>>,
      <<Str_a, STATE_PENDING, Str_1_2_3T, Some(Str_p)>> }

Item(id, kind) ==
    GitlabTodo(id, kind[1], kind[2], kind[3], Str_4_5_6T, Str_T, Str_a, kind[4])

\* The feeds: for each id up to MaxId, no item or one item of some kind
Feeds ==
    { LET ids == {id \in 1..MaxId : pick[id] # <<>>}
      IN  [i \in 1..Cardinality(ids) |->
              LET id == CHOOSE x \in ids : Cardinality({y \in ids : y < x}) = i - 1
              IN  Item(id, pick[id])]
      : pick \in [1..MaxId -> ItemKinds \cup {<<>>}] }

Configs ==
    { AppConfig(policy, ctx, ne) :
        policy \in {"Mark", "Add", "Ignore"}, ctx \in {None, Some(Str_g)},
        ne \in BOOLEAN }

\* Todo files an earlier run left: a hand-written line and a pending record
\* with id 1, or the done record with id 1, both with the context tag g; and
\* a hand-written file whose line has a completion date but no done marker.
EarlierConfig == AppConfig("Add", Some(Str_g), FALSE)

InitialFiles ==
    { write_file(<<Todo(FALSE, None, None, None, Str_a),
                   into_todo(Item(1, <<Str_a, STATE_PENDING, Str_1_2_3T, None>>),
                             EarlierConfig).todo>>),
      write_file(<<into_todo(Item(1, <<Str_a, STATE_DONE, Str_1_2_3T, None>>),
                             EarlierConfig).todo>>),
      Date_fmt(Date(4, 5, 6)) \o <<" ">> \o Date_fmt(Date(1, 2, 3))
          \o <<" ", "a", "\n">> }

InitMain ==
    /\ mode = "main" /\ pc = "start"
    /\ config \in Configs
    /\ feed \in Feeds
    /\ \/ fileExists = FALSE /\ file = <<>>
       \/ fileExists = TRUE /\ file \in InitialFiles
    /\ file0 = file
    /\ gltodos = <<>> /\ todos = <<>> /\ loaded = <<>>
    /\ written = <<>> /\ buf = <<>> /\ failedAt = "none" /\ runs = 1
    /\ existing0 = <<>> /\ todos0 = <<>> /\ add_done = FALSE
    /\ existing = <<>> /\ origin = <<>> /\ counts = <<0, 0, 0>>
    /\ IdleEscape /\ IdleCodec

Main(at) == mode = "main" /\ pc = at

\* AppConfig::read_from returned the configuration
ReadConfig ==
    /\ Main("start")
    /\ pc' = "configured"
    /\ UNCHANGED <<mode, escapeVars, codecVars, updateVars, mainVars>>

\* get_gitlab_todos
GetGitlabTodos ==
    /\ Main("configured")
    /\ gltodos' = get_gitlab_todos(feed, config)
    /\ pc' = "fetched"
    /\ UNCHANGED <<mode, escapeVars, codecVars, updateVars, config, feed, runs, file,
                   fileExists, file0, todos, loaded, written, buf, failedAt>>

\* the collect of into_todo over the items: the mapping, or the first Err
Convert ==
    /\ Main("fetched")
    /\ IF ConversionFails(gltodos, config)
       THEN pc' = "aborted" /\ failedAt' = "convert" /\ todos' = todos
       ELSE pc' = "converted" /\ failedAt' = failedAt
            /\ todos' = Collected(gltodos, config)
    /\ UNCHANGED <<mode, escapeVars, codecVars, updateVars, config, feed, runs, file,
                   fileExists, file0, gltodos, loaded, written, buf>>

\* File::options().read(true).create(true).write(true).open(..)
OpenFile ==
    /\ Main("converted")
    /\ fileExists' = TRUE
    /\ pc' = "opened"
    /\ UNCHANGED <<mode, escapeVars, codecVars, updateVars, config, feed, runs, file,
                   file0, gltodos, todos, loaded, written, buf, failedAt>>

\* read_existing: the records of the file, or the error of the first line
\* that does not parse
ReadExisting ==
    /\ Main("opened")
    /\ \E r \in {read_file(file)} :
          IF r.res = "Ok"
          THEN pc' = "loaded" /\ loaded' = r.list /\ failedAt' = failedAt
          ELSE pc' = "aborted" /\ loaded' = loaded /\ failedAt' = "parse"
    /\ UNCHANGED <<mode, escapeVars, codecVars, updateVars, config, feed, runs, file,
                   fileExists, file0, gltodos, todos, written, buf>>

\* partition, update_todos, concat and write_file into the buffer
Reconcile ==
    /\ Main("loaded")
    /\ existing0' = SelectSeq(loaded, LAMBDA t : splitf(t, config))
    /\ todos0' = todos
    /\ add_done' = (config.done_todo_policy = "Add")
    /\ \E left \in {Leftover(existing0', todos)} :
       \E order \in Orders(left) :
       \E r \in {update_todos(existing0', todos, add_done', order)} :
       \E all \in {SelectSeq(loaded, LAMBDA t : ~splitf(t, config)) \o r.list} :
            /\ existing' = r.list
            /\ origin' = r.origin
            /\ counts' = r.counts
            /\ written' = all
            /\ buf' = write_file(all)
    /\ pc' = "merged"
    /\ UNCHANGED <<mode, escapeVars, codecVars, config, feed, runs, file, fileExists,
                   file0, gltodos, todos, loaded, failedAt>>

\* stdout().write_all(&buf)
Echo ==
    /\ Main("merged")
    /\ pc' = "echoed"
    /\ UNCHANGED <<mode, escapeVars, codecVars, updateVars, mainVars>>

\* tf.set_len(0)
Truncate ==
    /\ Main("echoed")
    /\ file' = <<>>
    /\ pc' = "truncated"
    /\ UNCHANGED <<mode, escapeVars, codecVars, updateVars, config, feed, runs,
                   fileExists, file0, gltodos, todos, loaded, written, buf, failedAt>>

\* tf.seek(SeekFrom::Start(0))
Seek ==
    /\ Main("truncated")
    /\ pc' = "sought"
    /\ UNCHANGED <<mode, escapeVars, codecVars, updateVars, mainVars>>

\* tf.write_all(&buf)
WriteAll ==
    /\ Main("sought")
    /\ file' = buf
    /\ pc' = "written"
    /\ UNCHANGED <<mode, escapeVars, codecVars, updateVars, config, feed, runs,
                   fileExists, file0, gltodos, todos, loaded, written, buf, failedAt>>

\* tf.flush(), and the return of main
Flush ==
    /\ Main("written")
    /\ pc' = "done"
    /\ UNCHANGED <<mode, escapeVars, codecVars, updateVars, mainVars>>

\* The step main takes from each position
StepAt ==
    [start |-> "config", configured |-> "fetch", converted |-> "open",
     opened |-> "read", loaded |-> "serialize", merged |-> "echo", echoed |-> "truncate",
     truncated |-> "seek", sought |-> "write", written |-> "flush"]

\* What a write_all or flush that failed may leave of the buffer in the file:
\* nothing, a part, and for flush all of it.
LeftByFailedWrite(b, step) ==
    {<<>>, SubSeq(b, 1, Len(b) \div 2)} \cup (IF step = "flush" THEN {b} ELSE {})

\* The file after the step `step` has failed
AfterFailure(f, b, step) ==
    IF step \in {"write", "flush"} THEN LeftByFailedWrite(b, step) ELSE {f}

\* An input or output operation returns an error, and main returns it.
IoError ==
    /\ mode = "main" /\ pc \in DOMAIN StepAt
    /\ failedAt' = StepAt[pc]
    /\ file' \in AfterFailure(file, buf, StepAt[pc])
    /\ pc' = "aborted"
    /\ UNCHANGED <<mode, escapeVars, codecVars, updateVars, config, feed, runs,
                   fileExists, file0, gltodos, todos, loaded, written, buf>>

\* main has returned Ok and the program is run again, with the same
\* configuration and feed, on the file as the run before left it.
RunAgain ==
    /\ mode = "main" /\ pc = "done" /\ runs < MaxRuns
    /\ runs' = runs + 1
    /\ pc' = "start"
    /\ file0' = file
    /\ gltodos' = <<>> /\ todos' = <<>> /\ loaded' = <<>>
    /\ written' = <<>> /\ buf' = <<>>
    /\ existing0' = <<>> /\ todos0' = <<>> /\ add_done' = FALSE
    /\ existing' = <<>> /\ origin' = <<>> /\ counts' = <<0, 0, 0>>
    /\ UNCHANGED <<mode, escapeVars, codecVars, config, feed, file, fileExists,
                   failedAt>>

NextMain ==
    \/ ReadConfig \/ GetGitlabTodos \/ Convert \/ OpenFile \/ ReadExisting
    \/ Reconcile \/ Echo \/ Truncate \/ Seek \/ WriteAll \/ Flush \/ IoError
    \/ RunAgain

SpecMain == InitMain /\ [][NextMain]_vars

-----------------------------------------------------------------------------
(* Claims about escape_description (SpecEscape) *)

\* out with the characters at the indices in idxs left out
RECURSIVE Without(_, _, _)
Without(out, idxs, j) ==
    IF j > Len(out) THEN <<>>
    ELSE (IF j \in idxs THEN <<>> ELSE <<out[j]>>) \o Without(out, idxs, j + 1)

\* out is d with one backslash inserted per match of the tag pattern, the
\* i-th one `off` places after the last character of the i-th match's head
\* (off = 0: right before that character, off = 1: right after it).
InsertedPerTag(d, out, off) ==
    LET ms   == part_reg(d)
        idxs == {ms[i].headEnd + off + (i - 1) : i \in 1..Len(ms)}
    IN  /\ Len(out) = Len(d) + Len(ms)
        /\ \A j \in idxs : out[j] = "\\"
        /\ Without(out, idxs, 1) = d

\* C8: tag extraction on the output of escape_description yields no tag,
\* for every description.
C8_EscapedHasNoTags == pc = "escaped" => find_meta(escaped) = <<>>

\* A description holding two whitespace-separated tags has been escaped.
C8_Witness == pc = "escaped" /\ Len(find_meta(desc)) >= 2

\* C9 as stated: the output is the input with one backslash per match,
\* placed immediately after the head character (@, + or the key's colon).
C9_BackslashAfterHead == pc = "escaped" => InsertedPerTag(desc, escaped, 1)

\* C9 as amended: the output is the input with exactly one backslash per
\* match, placed immediately before the head character (before @, before +,
\* or between the key and its colon), every other character unchanged and in
\* the same order.
C9_BackslashBeforeHead == pc = "escaped" => InsertedPerTag(desc, escaped, 0)

\* A key:value tag that follows another tag and whitespace has been escaped.
C9_Witness ==
    /\ pc = "escaped"
    /\ \E i \in 2..Len(part_reg(desc)) :
          part_reg(desc)[i].headEnd > part_reg(desc)[i].tagStart
    /\ escaped # desc

-----------------------------------------------------------------------------
(* Claims about Display and FromStr (SpecCodec) *)

\* C7: for every record Todo::new accepts, parsing the line that Display
\* produces succeeds and returns a record equal to the original.
C7_RoundTrip == pc = "parsed" => parsed = Ok(rec)

-----------------------------------------------------------------------------
(* Claims about update_todos (SpecUpdate).  "Present in the list" is read  *)
(* through the history `origin`: a record of the list stands for the local *)
(* record and the incoming key it was made from.                           *)

Returned == mode = "update" /\ pc = "returned"

\* The places of the local list whose record has no parsable id
ForeignPlaces == {j \in 1..Len(existing0) : get_id(existing0[j]) = None}

\* The places of the list after the call
Places == 1..Len(existing)

\* The records of seq at the places in P, in order
RECURSIVE AtPlaces(_, _, _)
AtPlaces(seq, P, i) ==
    IF i > Len(seq) THEN <<>>
    ELSE (IF i \in P THEN <<seq[i]>> ELSE <<>>) \o AtPlaces(seq, P, i + 1)

CountIn(seq, r) == Cardinality({i \in 1..Len(seq) : seq[i] = r})

Range(f) == {f[x] : x \in DOMAIN f}

\* C1: whatever the list, the mapping and add_done, the local records with
\* no id tag or an id that does not parse are all in the list after
\* update_todos, each with its five fields unchanged, in the same relative
\* order.
C1_ForeignRecordsKept ==
    Returned =>
        AtPlaces(existing, {i \in Places : origin[i].local \in ForeignPlaces}, 1)
            = AtPlaces(existing0, ForeignPlaces, 1)

\* Two different records without a parsable id were in the list, and the
\* call appended an incoming record after them.
C1_Witness ==
    /\ Returned
    /\ \E j1, j2 \in ForeignPlaces : j1 < j2 /\ existing0[j1] # existing0[j2]
    /\ \E i \in Places : origin[i].local = 0

\* C3 as stated: with add_done, the records of the list that carry a
\* parsable id are exactly the records of the incoming mapping, one per key;
\* for an empty list the counts are (number of keys, 0, 0).
C3_TaggedAreIncoming ==
    (Returned /\ add_done) =>
        /\ \A r \in Range(existing) \cup Range(todos0) :
              (IF get_id(r) # None THEN CountIn(existing, r) ELSE 0)
                  = Cardinality({k \in DOMAIN todos0 : todos0[k] = r})
        /\ existing0 = <<>> => counts = <<Cardinality(DOMAIN todos0), 0, 0>>

\* C3 as amended: with add_done, the records of the list other than the
\* retained local records without a parsable id are exactly the records of
\* the incoming mapping, one per key and each equal to the incoming record
\* (done or not, id in the list before or not, and whether or not the
\* incoming record itself carries a parsable id); for an empty list the
\* counts are (number of keys, 0, 0).
C3_AllIncomingAdded ==
    (Returned /\ add_done) =>
        /\ \A k \in DOMAIN todos0 :
              /\ Cardinality({i \in Places : origin[i].key = k}) = 1
              /\ \A i \in Places : origin[i].key = k => existing[i] = todos0[k]
        /\ \A i \in Places :
              IF origin[i].key = 0
              THEN /\ origin[i].local \in ForeignPlaces
                   /\ existing[i] = existing0[origin[i].local]
              ELSE origin[i].key \in DOMAIN todos0
        /\ existing0 = <<>> => counts = <<Cardinality(DOMAIN todos0), 0, 0>>

\* The list was empty and two done incoming records were added.
C3_Witness ==
    /\ Returned /\ add_done
    /\ existing0 = <<>>
    /\ Cardinality(DOMAIN todos0) = 2
    /\ \A k \in DOMAIN todos0 : todos0[k].done /\ get_id(todos0[k]) = Some(k)
    /\ Len(existing) = 2
    /\ counts = <<2, 0, 0>>

\* Some local record carried the id k before the call.
Carried(k) == \E j \in 1..Len(existing0) : get_id(existing0[j]) = Some(k)

\* C4: without add_done, a done incoming record is in the list if and only
\* if a local record carried its id before the call, and then stands in that
\* record's place (the item is marked done in the output); an incoming
\* record that is not done is in the list either way.
C4_DoneOnlyMarked ==
    (Returned /\ ~add_done) =>
        \A k \in DOMAIN todos0 :
            LET at == {i \in Places : origin[i].key = k /\ existing[i] = todos0[k]}
            IN  IF todos0[k].done
                THEN /\ at # {} <=> Carried(k)
                     /\ \A i \in at : origin[i].local # 0 /\ existing[i].done
                ELSE at # {}

\* A pending local record was replaced by its done version, a done record
\* with a new id was left out.
C4_Witness ==
    /\ Returned /\ ~add_done
    /\ \E k \in DOMAIN todos0 :
          /\ todos0[k].done /\ Carried(k)
          /\ \E j \in 1..Len(existing0) :
                get_id(existing0[j]) = Some(k) /\ ~existing0[j].done
          /\ \E i \in Places : origin[i].key = k /\ existing[i].done
    /\ \E k \in DOMAIN todos0 :
          /\ todos0[k].done /\ ~Carried(k)
          /\ \A i \in Places : origin[i].key # k

\* C5: under either policy a local record whose parsed id is not a key of
\* the incoming mapping is not in the list after update_todos, and the
\* removed count is the number of local records dropped from the list.
C5_OrphansRemoved ==
    Returned =>
        /\ \A j \in 1..Len(existing0) :
              (get_id(existing0[j]) # None
               /\ get_id(existing0[j])[1] \notin DOMAIN todos0)
                  => \A i \in Places : origin[i].local # j
        /\ counts[3] = Len(existing0)
                         - Cardinality({i \in Places : origin[i].local # 0})

\* A local record with an id the mapping lacks was dropped next to one that
\* stayed.
C5_Witness ==
    /\ Returned
    /\ \E j \in 1..Len(existing0) :
          /\ get_id(existing0[j]) # None
          /\ get_id(existing0[j])[1] \notin DOMAIN todos0
    /\ counts[3] = 1
    /\ Len(existing0) = 2
    /\ \E i \in Places : origin[i].local # 0

-----------------------------------------------------------------------------
(* Claims about a run of main (SpecMain) *)

Aborted == mode = "main" /\ pc = "aborted"

\* C2: whenever a step of main fails fatally, the content of the todo file
\* when the run aborts is its content before the run started.
C2_AbortLeavesFile == Aborted => file = file0

\* The same for the steps that come before the rewrite of the file and for
\* the truncation itself.
C2_AbortBeforeRewriteLeavesFile ==
    Aborted /\ failedAt \notin {"seek", "write", "flush"} => file = file0

\* A record subject to reconciliation that carries a parsable id and is done
SyncedDone(t, cfg) == splitf(t, cfg) /\ get_id(t) # None /\ t.done

\* The records a reader of the todo file gets
RecordsOf(f) == LET r == read_file(f) IN IF r.res = "Ok" THEN r.list ELSE <<>>

Completed == mode = "main" /\ pc = "done"

\* C6: under the Ignore policy, after a complete run the written file holds
\* no record that is subject to reconciliation, carries a parsable id and is
\* marked done.
C6_IgnoreLeavesNoDone ==
    Completed /\ config.done_todo_policy = "Ignore" =>
        \A i \in DOMAIN RecordsOf(file) : ~SyncedDone(RecordsOf(file)[i], config)

\* The same of the list main handed to write_file
C6_IgnoreListHasNoDone ==
    Completed /\ config.done_todo_policy = "Ignore" =>
        \A i \in DOMAIN written : ~SyncedDone(written[i], config)

\* The number of line terminators in a text
Terminators(f) == Cardinality({i \in DOMAIN f : f[i] = "\n"})

Merged == mode = "main" /\ pc = "merged"

\* C10: for every list the pipeline hands to write_file, write_file emits
\* one line per record and read_file of the output returns the records
\* written, as many and in the same order.
C10_FileHoldsTheList ==
    Merged =>
        /\ Terminators(buf) = Len(written)
        /\ read_file(buf) = [res |-> "Ok", list |-> written]

\* The same when no body of the feed holds a line terminator
NoTerminatorInFeed == \A i \in DOMAIN feed : "\n" \notin Range(feed[i].body)

C10_FileHoldsTheListOfPlainBodies ==
    Merged /\ NoTerminatorInFeed =>
        /\ Terminators(buf) = Len(written)
        /\ read_file(buf) = [res |-> "Ok", list |-> written]

C6_IgnoreLeavesNoDoneOfPlainBodies ==
    Completed /\ config.done_todo_policy = "Ignore" /\ NoTerminatorInFeed =>
        \A i \in DOMAIN RecordsOf(file) : ~SyncedDone(RecordsOf(file)[i], config)

Converted == mode = "main" /\ pc = "converted"

\* C11: for every feed item and every configuration, get_data("id") of the
\* record into_todo produces is the decimal rendering of the item's own id,
\* so the key update_todos extracts from the record is the key under which
\* the mapping stores it.
C11_IdTagIsOwnId ==
    Converted =>
        \A k \in DOMAIN todos :
            /\ get_data(todos[k].description, <<"i", "d">>) = Some(NatToStr(k))
            /\ get_id(todos[k]) = Some(k)

\* The same when the body is escaped
C11_IdTagIsOwnIdWhenEscaped ==
    Converted /\ ~config.no_escape_meta =>
        \A k \in DOMAIN todos :
            /\ get_data(todos[k].description, <<"i", "d">>) = Some(NatToStr(k))
            /\ get_id(todos[k]) = Some(k)

-----------------------------------------------------------------------------
(* FromStr for Todo on lines with and without a priority (SpecParse) *)

MaxRestLen == 2

\* What a line may start with after the done marker: a priority as todo.txt
\* writes it, texts that only look like one, and the texts PRI_REG matches.
PriorityPrefixes ==
    { <<>>,
      <<"(", "A", ")", " ">>,
      <<"(", "B", ")", "\t", " ">>,
      <<"(", "A", ")">>,
      <<"(", "a", ")", " ">>,
      <<"A", ")", " ">>,
      <<"<", "p", "r", "i", ">", "A", ")", " ">>,
      <<"(", "<", "p", "r", "i", ">", "Z", ")", " ">>,
      <<"(", "<", "p", "r", "i", ">", "A", ")">> }

\* What follows: a short text, or one or two dates and a text
RestsOfLine ==
    Strings({"a", " "}, MaxRestLen)
    \cup { Date_fmt(Date(2024, 1, 5)) \o <<" ", "a">>,
           Date_fmt(Date(2024, 2, 6)) \o <<" ">> \o Date_fmt(Date(2024, 1, 5))
               \o <<" ", "a">> }

InitParse ==
    /\ mode = "parse" /\ pc = "read"
    /\ \E marker \in {<<>>, <<"x", " ">>}, prefix \in PriorityPrefixes,
          rest \in RestsOfLine :
            line = marker \o prefix \o rest
    /\ rec = NullTodo /\ parsed = Err
    /\ IdleEscape /\ IdleUpdate /\ IdleMain

\* line.parse::<Todo>()
FromStr ==
    /\ mode = "parse" /\ pc = "read"
    /\ parsed' = from_str(line)
    /\ pc' = "parsed"
    /\ UNCHANGED <<mode, rec, line, escapeVars, updateVars, mainVars>>

NextParse == FromStr

SpecParse == InitParse /\ [][NextParse]_vars

LineParsed == mode = "parse" /\ pc = "parsed"

\* The text left after the optional done marker
AfterMarker(l) == IF StartsWith(l, <<"x", " ">>) THEN SubSeq(l, 3, Len(l)) ELSE l

\* '(' , one of A-Z, ')' and at least one whitespace character at the start
HasPriority(s) ==
    Len(s) >= 4 /\ s[1] = "(" /\ s[2] \in UpperLetters /\ s[3] = ")" /\ IsWs(s[4])

\* The text after the priority and the whitespace that follows it
AfterPriority(s) == TrimStart(SubSeq(s, 4, Len(s)))

\* The record the remaining steps of from_str make of the text left, with
\* the priority given
WithPriority(done, priority, s) ==
    LET ds == ParseDates(s, done)
    IN  IF ds.res = "Err" THEN Err
        ELSE Todo_new(done, priority, ds.created, ds.completed, TrimStart(ds.rest))

\* C12: when the text after the optional done marker starts with '(', one
\* letter A-Z, ')' and whitespace, parsing sets priority to that letter and
\* removes that prefix from what becomes the description; for any other text
\* priority is unset and parsing neither fails nor panics in the priority
\* step.
C12_PriorityIsParsed ==
    LineParsed =>
        LET done == StartsWith(line, <<"x", " ">>)
            s    == AfterMarker(line)
        IN  IF HasPriority(s)
            THEN parsed = WithPriority(done, Some(s[2]), AfterPriority(s))
            ELSE parsed = WithPriority(done, None, s)

\* The first half alone: a priority written as (A) is read as a priority
C12_WrittenPriorityIsRead ==
    LineParsed /\ HasPriority(AfterMarker(line)) /\ parsed.res = "Ok" =>
        parsed.todo.priority = Some(AfterMarker(line)[2])

\* The second half alone: no panic whatever the line
C12_NoPanic == LineParsed => parsed.res # "Panic"

\* What the code does instead: priority is never set, and a line that
\* PRI_REG matches panics.
C12_PriorityNeverSet ==
    LineParsed =>
        IF PRI_REG(AfterMarker(line)) > 0 THEN parsed.res = "Panic"
        ELSE parsed = WithPriority(StartsWith(line, <<"x", " ">>), None,
                                   AfterMarker(line))

-----------------------------------------------------------------------------
(* Claims about the counts and the ids of update_todos (SpecUpdate) *)

\* The places of the returned list that update_todos appended
Appended == {i \in Places : origin[i].local = 0}

\* C13: under every policy the first count returned by update_todos (new) is
\* the number of records the call appended to the list: the length of the
\* list after the call is the length before, minus removed, plus new.
C13_NewCountsAppended ==
    Returned =>
        /\ counts[1] = Cardinality(Appended)
        /\ Len(existing) = Len(existing0) - counts[3] + counts[1]

\* The same with add_done = true
C13_NewCountsAppendedWhenAddDone ==
    Returned /\ add_done =>
        /\ counts[1] = Cardinality(Appended)
        /\ Len(existing) = Len(existing0) - counts[3] + counts[1]

\* What new counts: the entries no local record took, appended or not
C13_NewCountsUnmatched ==
    Returned =>
        counts[1] = Cardinality({k \in DOMAIN todos0 : ~Carried(k)})

\* Every record of the incoming mapping carries its own key as its id tag
KeysAreIds == \A k \in DOMAIN todos0 : get_id(todos0[k]) = Some(k)

\* C14: if every record of the incoming mapping carries its own key as its
\* id tag, then after update_todos no two records of the list yield the same
\* parsed id, under either policy, also when several local records had the
\* same id before the call.
C14_IdsAreUnique ==
    Returned /\ KeysAreIds =>
        \A i, j \in Places :
            i # j /\ get_id(existing[i]) # None =>
                get_id(existing[i]) # get_id(existing[j])

\* Two local records had the id of an incoming record, the first of them is
\* in the list, and a record was appended.
C14_Witness ==
    /\ Returned /\ KeysAreIds
    /\ \E a, b \in 1..Len(existing0) :
          /\ a < b
          /\ get_id(existing0[a]) # None
          /\ get_id(existing0[a]) = get_id(existing0[b])
          /\ get_id(existing0[a])[1] \in DOMAIN todos0
          /\ \E i \in Places : origin[i].local = a
          /\ \A i \in Places : origin[i].local # b
    /\ Appended # {}

-----------------------------------------------------------------------------
(* Claims about a second run of main (SpecMain) *)

\* A run that follows a complete run has completed
CompletedAgain == Completed /\ runs >= 2

\* C15: when two complete runs follow one another with the same
\* configuration and feed, the file is not edited in between and no body of
\* the feed holds a line terminator, the second run replaces no record and
\* removes none, and writes a file whose lines are those the first run
\* wrote, in the same order.
C15_SecondRunChangesNothing ==
    CompletedAgain /\ NoTerminatorInFeed =>
        /\ counts[2] = 0 /\ counts[3] = 0
        /\ Lines(file) = Lines(file0)

\* The same when the bodies are escaped
C15_SecondRunChangesNothingWhenEscaped ==
    CompletedAgain /\ NoTerminatorInFeed /\ ~config.no_escape_meta =>
        /\ counts[2] = 0 /\ counts[3] = 0
        /\ Lines(file) = Lines(file0)

\* The same when every record into_todo made carries its own id
C15_SecondRunChangesNothingWhenIdsAreOwn ==
    /\ CompletedAgain /\ NoTerminatorInFeed
    /\ \A k \in DOMAIN todos : get_id(todos[k]) = Some(k)
    => /\ counts[2] = 0 /\ counts[3] = 0
       /\ Lines(file) = Lines(file0)

=============================================================================
